---- MODULE Spec2Model ----
(***************************************************************************)
(* Prompt Inspector (visible line breaks): the JSON-string-aware newline   *)
(* transforms of src/index.js and the index mapping helpers that replay    *)
(* them.  A text is a sequence of one-character strings; the two scanners  *)
(* are run one loop iteration per step.                                    *)
(***************************************************************************)
EXTENDS Integers, Sequences, FiniteSets

\* ------------------------------------------------------------------------
\* Characters and input texts
\* ------------------------------------------------------------------------
MaxLen == 5

BACKSLASH == "\\"
QUOTE == "\""
LF == "\n"
CR == "\r"

\* The characters the scanners tell apart: an opening brace (which is also an
\* ordinary character once inside a string), the double quote, the
\* backslash, the letter n, and the two real line-break characters.
Chars == {"{", QUOTE, BACKSLASH, "n", LF, CR}

RECURSIVE SeqsOfLen(_)
SeqsOfLen(k) ==
    IF k = 0 THEN {<<>>}
    ELSE {Append(s, c) : s \in SeqsOfLen(k - 1), c \in Chars}

Texts == UNION {SeqsOfLen(k) : k \in 0..MaxLen}

\* '\\'.repeat(count)
Repeat(count) == [k \in 1..count |-> BACKSLASH]

\* ------------------------------------------------------------------------
\* isLikelyJson
\* ------------------------------------------------------------------------
IsWhiteSpace(ch) == ch \in {LF, CR, " "}

RECURSIVE TrimStart(_)
TrimStart(s) ==
    IF s # <<>> /\ IsWhiteSpace(Head(s)) THEN TrimStart(Tail(s)) ELSE s

RECURSIVE TrimEnd(_)
TrimEnd(s) ==
    IF s # <<>> /\ IsWhiteSpace(s[Len(s)])
    THEN TrimEnd(SubSeq(s, 1, Len(s) - 1))
    ELSE s

trim(s) == TrimEnd(TrimStart(s))

StartsWith(t, ch) == t # <<>> /\ t[1] = ch

isLikelyJson_Includes(s) ==
    \E k \in 1..Len(s) : s[k] = "{" \/ s[k] = "["

isLikelyJson(s) ==
    IF s = <<>> THEN FALSE
    ELSE LET t == trim(s) IN StartsWith(t, "{") \/ StartsWith(t, "[")

\* ------------------------------------------------------------------------
\* One loop iteration of each scanner, on the scan state
\* [out, inStr, backslashCount] and the character ch = src[i]
\* ------------------------------------------------------------------------
ScanStart == [out |-> <<>>, inStr |-> FALSE, backslashCount |-> 0]

\* if (ch === '\\') { backslashCount++; continue; }
CountBackslash(s) == [s EXCEPT !.backslashCount = @ + 1]

QuoteInString_AlwaysCloses(s) ==
    [out |-> s.out \o Repeat(s.backslashCount) \o <<QUOTE>>,
     inStr |-> FALSE,
     backslashCount |-> 0]

\* if (ch === '"') { escapedQuote = backslashCount % 2 === 1; ... }
QuoteInString(s) ==
    [out |-> s.out \o Repeat(s.backslashCount) \o <<QUOTE>>,
     inStr |-> (s.backslashCount % 2) = 1,
     backslashCount |-> 0]

DisplayEscapedN_KeepsRun(s) ==
    [out |-> s.out \o Repeat(s.backslashCount) \o <<LF>>,
     inStr |-> s.inStr,
     backslashCount |-> 0]

\* if (ch === 'n' && backslashCount > 0) { ... out += '\n'; ... }
DisplayEscapedN(s) ==
    [out |-> s.out
             \o (IF s.backslashCount > 1
                 THEN Repeat(s.backslashCount - 1) ELSE <<>>)
             \o <<LF>>,
     inStr |-> s.inStr,
     backslashCount |-> 0]

SaveLineFeed_DropsRun(s) ==
    [out |-> s.out \o <<BACKSLASH, "n">>,
     inStr |-> s.inStr,
     backslashCount |-> 0]

\* if (ch === '\n') { out += '\\'.repeat(backslashCount) + '\\n'; ... }
SaveLineFeed(s) ==
    [out |-> s.out \o Repeat(s.backslashCount) \o <<BACKSLASH, "n">>,
     inStr |-> s.inStr,
     backslashCount |-> 0]

\* if (ch === '\r') { continue; }
SaveCarriageReturn(s) == s

\* out += '\\'.repeat(backslashCount) + ch; backslashCount = 0;
FlushAndCopy(s, ch) ==
    [out |-> s.out \o Repeat(s.backslashCount) \o <<ch>>,
     inStr |-> s.inStr,
     backslashCount |-> 0]

CopyOutside_DropsLineBreaks(s, ch) ==
    [out |-> IF ch \in {LF, CR} THEN s.out ELSE s.out \o <<ch>>,
     inStr |-> (ch = QUOTE),
     backslashCount |-> s.backslashCount]

\* if (ch === '"') inStr = true; out += ch;
CopyOutside(s, ch) ==
    [out |-> s.out \o <<ch>>,
     inStr |-> (ch = QUOTE),
     backslashCount |-> s.backslashCount]

DisplayStep(s, ch) ==
    IF s.inStr THEN
        IF ch = BACKSLASH THEN CountBackslash(s)
        ELSE IF ch = QUOTE THEN QuoteInString(s)
        ELSE IF ch = "n" /\ s.backslashCount > 0 THEN DisplayEscapedN(s)
        ELSE FlushAndCopy(s, ch)
    ELSE CopyOutside(s, ch)

SaveStep(s, ch) ==
    IF s.inStr THEN
        IF ch = BACKSLASH THEN CountBackslash(s)
        ELSE IF ch = QUOTE THEN QuoteInString(s)
        ELSE IF ch = CR THEN SaveCarriageReturn(s)
        ELSE IF ch = LF THEN SaveLineFeed(s)
        ELSE FlushAndCopy(s, ch)
    ELSE CopyOutside(s, ch)

\* if (backslashCount > 0) out += '\\'.repeat(backslashCount); return out
EndFlush(s) ==
    IF s.backslashCount > 0 THEN s.out \o Repeat(s.backslashCount) ELSE s.out

\* The scan state after the first k loop iterations over src.
DisplayRun(src, k) ==
    LET f[j \in 0..k] ==
            IF j = 0 THEN ScanStart ELSE DisplayStep(f[j - 1], src[j])
    IN f[k]

SaveRun(src, k) ==
    LET f[j \in 0..k] ==
            IF j = 0 THEN ScanStart ELSE SaveStep(f[j - 1], src[j])
    IN f[k]

\* The loop and the final flush, without the isLikelyJson gate.
DisplayScan(src) == EndFlush(DisplayRun(src, Len(src)))
SaveScan(src) == EndFlush(SaveRun(src, Len(src)))

jsonStringsDisplayNewlines(src) ==
    IF ~isLikelyJson(src) THEN src ELSE DisplayScan(src)

jsonStringsSaveNewlines(src) ==
    IF ~isLikelyJson(src) THEN src ELSE SaveScan(src)

\* ------------------------------------------------------------------------
\* Index mapping helpers
\* ------------------------------------------------------------------------
MapStart == [count |-> 0, inStr |-> FALSE, backslashCount |-> 0]

MapRawStep(s, ch) ==
    IF s.inStr THEN
        IF ch = BACKSLASH THEN
            [s EXCEPT !.backslashCount = @ + 1]
        ELSE IF ch = QUOTE THEN
            [count |-> s.count + s.backslashCount + 1,
             inStr |-> (s.backslashCount % 2) = 1,
             backslashCount |-> 0]
        ELSE IF ch = "n" /\ s.backslashCount > 0 THEN
            [count |-> s.count
                       + (IF s.backslashCount > 1
                          THEN s.backslashCount - 1 ELSE 0)
                       + 1,
             inStr |-> s.inStr,
             backslashCount |-> 0]
        ELSE
            [count |-> s.count + s.backslashCount + 1,
             inStr |-> s.inStr,
             backslashCount |-> 0]
    ELSE
        [count |-> s.count + 1,
         inStr |-> (ch = QUOTE),
         backslashCount |-> s.backslashCount]

MapFriendlyStep(s, ch) ==
    IF s.inStr THEN
        IF ch = BACKSLASH THEN
            [count |-> s.count + 1,
             inStr |-> s.inStr,
             backslashCount |-> s.backslashCount + 1]
        ELSE IF ch = QUOTE THEN
            [count |-> s.count + 1,
             inStr |-> (s.backslashCount % 2) = 1,
             backslashCount |-> 0]
        ELSE IF ch = CR THEN
            [count |-> s.count + 1, inStr |-> s.inStr, backslashCount |-> 0]
        ELSE IF ch = LF THEN
            [count |-> s.count + 2, inStr |-> s.inStr, backslashCount |-> 0]
        ELSE
            [count |-> s.count + 1, inStr |-> s.inStr, backslashCount |-> 0]
    ELSE
        [count |-> s.count + 1,
         inStr |-> (ch = QUOTE),
         backslashCount |-> s.backslashCount]

Min(a, b) == IF a < b THEN a ELSE b

mapRawTopToFriendlyIndex_NoFlush(src, rawIndex) ==
    LET n == Min(Len(src), rawIndex)
        f[j \in 0..n] ==
            IF j = 0 THEN MapStart ELSE MapRawStep(f[j - 1], src[j])
    IN  f[n].count

mapRawTopToFriendlyIndex(src, rawIndex) ==
    LET n == Min(Len(src), rawIndex)
        f[j \in 0..n] ==
            IF j = 0 THEN MapStart ELSE MapRawStep(f[j - 1], src[j])
    IN  IF f[n].backslashCount > 0
        THEN f[n].count + f[n].backslashCount
        ELSE f[n].count

mapFriendlyTopToRawIndex(src, friendlyIndex) ==
    LET n == Min(Len(src), friendlyIndex)
        f[j \in 0..n] ==
            IF j = 0 THEN MapStart ELSE MapFriendlyStep(f[j - 1], src[j])
    IN  f[n].count

\* ------------------------------------------------------------------------
\* Anchor: build and match while ignoring newlines
\* ------------------------------------------------------------------------
\* text[i] for a zero-based index i; out of range reads give undefined
CharAt(text, i) ==
    IF i >= 0 /\ i < Len(text) THEN text[i + 1] ELSE "undefined"

isLiteralBackslashN_Never(text, i) == FALSE

isLiteralBackslashN(text, i) ==
    CharAt(text, i) = BACKSLASH /\ CharAt(text, i + 1) = "n"

isRealNewline_OnlyLF(ch) == ch = LF

isRealNewline(ch) == ch = LF \/ ch = CR

Max(a, b) == IF a > b THEN a ELSE b

RECURSIVE BuildLoop(_, _, _, _)
BuildLoop(text, i, acc, count) ==
    IF i < Len(text) /\ Len(acc) < count THEN
        IF isLiteralBackslashN(text, i) THEN BuildLoop(text, i + 2, acc, count)
        ELSE IF isRealNewline(CharAt(text, i))
             THEN BuildLoop(text, i + 1, acc, count)
        ELSE BuildLoop(text, i + 1, Append(acc, CharAt(text, i)), count)
    ELSE acc

buildAnchorIgnoringNewlines(text, startIdx, count) ==
    BuildLoop(text, Max(0, startIdx), <<>>, count)

\* tryScan: the state of the inner matching loop at candidate start s
MatchStart(s) == [ti |-> s, ai |-> 0, firstIndex |-> -1, broke |-> FALSE]

\* while (ti < text.length && ti >= 0 && ai < anchor.length)
MatchRunning(text, anchor, m) ==
    /\ ~m.broke
    /\ m.ti < Len(text)
    /\ m.ti >= 0
    /\ m.ai < Len(anchor)

MatchStep_LastIndex(text, anchor, m, step) ==
    IF isLiteralBackslashN(text, m.ti) THEN [m EXCEPT !.ti = @ + 2]
    ELSE IF isRealNewline(CharAt(text, m.ti))
         THEN [m EXCEPT !.ti = @ + (IF step > 0 THEN 1 ELSE -1)]
    ELSE IF anchor[m.ai + 1] # CharAt(text, m.ti)
         THEN [m EXCEPT !.broke = TRUE]
    ELSE [ti |-> m.ti + 1,
          ai |-> m.ai + 1,
          firstIndex |-> m.ti,
          broke |-> FALSE]

MatchStep_KeepsAi(text, anchor, m, step) ==
    IF isLiteralBackslashN(text, m.ti) THEN [m EXCEPT !.ti = @ + 2]
    ELSE IF isRealNewline(CharAt(text, m.ti))
         THEN [m EXCEPT !.ti = @ + (IF step > 0 THEN 1 ELSE -1)]
    ELSE IF anchor[m.ai + 1] # CharAt(text, m.ti)
         THEN [m EXCEPT !.broke = TRUE]
    ELSE [ti |-> m.ti + 1,
          ai |-> m.ai,
          firstIndex |-> IF m.firstIndex = -1 THEN m.ti ELSE m.firstIndex,
          broke |-> FALSE]

\* one iteration of the inner matching loop
MatchStep(text, anchor, m, step) ==
    IF isLiteralBackslashN(text, m.ti) THEN [m EXCEPT !.ti = @ + 2]
    ELSE IF isRealNewline(CharAt(text, m.ti))
         THEN [m EXCEPT !.ti = @ + (IF step > 0 THEN 1 ELSE -1)]
    ELSE IF anchor[m.ai + 1] # CharAt(text, m.ti)
         THEN [m EXCEPT !.broke = TRUE]
    ELSE [ti |-> m.ti + 1,
          ai |-> m.ai + 1,
          firstIndex |-> IF m.firstIndex = -1 THEN m.ti ELSE m.firstIndex,
          broke |-> FALSE]

RECURSIVE MatchLoop(_, _, _, _)
MatchLoop(text, anchor, m, step) ==
    IF MatchRunning(text, anchor, m)
    THEN MatchLoop(text, anchor, MatchStep(text, anchor, m, step), step)
    ELSE m

\* for (let s = from; (step > 0 ? s <= to : s >= to); s += step)
InScanRange(s, to, step) == IF step > 0 THEN s <= to ELSE s >= to

RECURSIVE tryScan(_, _, _, _, _)
tryScan(text, anchor, from, to, step) ==
    IF InScanRange(from, to, step) THEN
        LET m == MatchLoop(text, anchor, MatchStart(from), step)
        IN  IF m.ai = Len(anchor) THEN m.firstIndex
            ELSE tryScan(text, anchor, from + step, to, step)
    ELSE -1

ScanLow(aroundIndex, radius) == Max(0, aroundIndex - radius)

ScanHigh(text, aroundIndex, radius) == Min(Len(text), aroundIndex + radius)

findAnchorIgnoringNewlines(text, anchor, aroundIndex, radius) ==
    IF anchor = <<>> THEN aroundIndex
    ELSE LET fwd == tryScan(text, anchor, aroundIndex,
                            ScanHigh(text, aroundIndex, radius), 1)
             bwd == tryScan(text, anchor, aroundIndex,
                            ScanLow(aroundIndex, radius), -1)
         IN  IF fwd # -1 THEN fwd
             ELSE IF bwd # -1 THEN bwd
             ELSE aroundIndex

\* ------------------------------------------------------------------------
\* JSON.stringify(value, null, 4) and JSON.parse, on the values that texts
\* over "[", "]", "{", "}", ",", quote, backslash, n and white space can
\* denote: strings, the empty object (no ":" is available for a member),
\* and arrays of these
\* ------------------------------------------------------------------------
SPACE == " "

INDENT == 4

JsonString(t) == [type |-> "string", text |-> t, items |-> <<>>]

JsonObject == [type |-> "object", text |-> <<>>, items |-> <<>>]

JsonArray(its) == [type |-> "array", text |-> <<>>, items |-> its]

\* the SyntaxError thrown by JSON.parse
SyntaxError == [type |-> "SyntaxError", text |-> <<>>, items |-> <<>>]

IsArray(v) == v.type = "array"

Spaces(k) == [j \in 1..k |-> SPACE]

RECURSIVE Quote(_)
Quote(t) ==
    IF t = <<>> THEN <<>>
    ELSE (IF Head(t) = QUOTE THEN <<BACKSLASH, QUOTE>>
          ELSE IF Head(t) = BACKSLASH THEN <<BACKSLASH, BACKSLASH>>
          ELSE IF Head(t) = LF THEN <<BACKSLASH, "n">>
          ELSE <<Head(t)>>) \o Quote(Tail(t))

RECURSIVE Stringify(_, _)
RECURSIVE StringifyItems(_, _)
StringifyItems(its, level) ==
    IF its = <<>> THEN <<>>
    ELSE <<LF>> \o Spaces(INDENT * level) \o Stringify(Head(its), level)
         \o (IF Tail(its) = <<>> THEN <<>> ELSE <<",">>)
         \o StringifyItems(Tail(its), level)

Stringify(v, level) ==
    IF v.type = "string" THEN <<QUOTE>> \o Quote(v.text) \o <<QUOTE>>
    ELSE IF v.type = "object" THEN <<"{", "}">>
    ELSE IF v.items = <<>> THEN <<"[", "]">>
    ELSE <<"[">> \o StringifyItems(v.items, level + 1)
         \o <<LF>> \o Spaces(INDENT * level) \o <<"]">>

\* JSON.stringify(value, null, 4)
JSONstringify(v) == Stringify(v, 0)

JsonWhiteSpace(ch) == ch \in {SPACE, LF, CR}

RECURSIVE SkipWs(_, _)
SkipWs(t, p) ==
    IF p <= Len(t) /\ JsonWhiteSpace(t[p]) THEN SkipWs(t, p + 1) ELSE p

\* a parse result: the value read and the position after it, or a failure
Parsed(v, p) == [ok |-> TRUE, val |-> v, pos |-> p]

ParseFail == [ok |-> FALSE, val |-> SyntaxError, pos |-> 0]

\* the characters of a string literal after its opening quote
RECURSIVE ParseString(_, _, _)
ParseString(t, p, acc) ==
    IF p > Len(t) THEN ParseFail
    ELSE IF t[p] = QUOTE THEN Parsed(JsonString(acc), p + 1)
    ELSE IF t[p] = BACKSLASH THEN
        IF p + 1 > Len(t) THEN ParseFail
        ELSE IF t[p + 1] = "n" THEN ParseString(t, p + 2, Append(acc, LF))
        ELSE IF t[p + 1] \in {QUOTE, BACKSLASH}
             THEN ParseString(t, p + 2, Append(acc, t[p + 1]))
        ELSE ParseFail
    ELSE IF t[p] \in {LF, CR} THEN ParseFail
    ELSE ParseString(t, p + 1, Append(acc, t[p]))

RECURSIVE ParseValue(_, _)
RECURSIVE ParseElements(_, _, _)
\* the elements of an array after its "[" when it is not empty
ParseElements(t, p, acc) ==
    LET r == ParseValue(t, p)
    IN  IF ~r.ok THEN ParseFail
        ELSE LET q == SkipWs(t, r.pos)
             IN  IF q > Len(t) THEN ParseFail
                 ELSE IF t[q] = ","
                      THEN ParseElements(t, q + 1, Append(acc, r.val))
                 ELSE IF t[q] = "]"
                      THEN Parsed(JsonArray(Append(acc, r.val)), q + 1)
                 ELSE ParseFail

ParseValue(t, p) ==
    LET q == SkipWs(t, p)
    IN  IF q > Len(t) THEN ParseFail
        ELSE IF t[q] = QUOTE THEN ParseString(t, q + 1, <<>>)
        ELSE IF t[q] = "{" THEN
            LET x == SkipWs(t, q + 1)
            IN  IF x <= Len(t) /\ t[x] = "}" THEN Parsed(JsonObject, x + 1)
                ELSE ParseFail
        ELSE IF t[q] = "[" THEN
            LET x == SkipWs(t, q + 1)
            IN  IF x <= Len(t) /\ t[x] = "]"
                THEN Parsed(JsonArray(<<>>), x + 1)
                ELSE ParseElements(t, q + 1, <<>>)
        ELSE ParseFail

\* JSON.parse(text): the value, or SyntaxError when it throws
JSONparse(t) ==
    LET r == ParseValue(t, 1)
    IN  IF r.ok /\ SkipWs(t, r.pos) > Len(t) THEN r.val ELSE SyntaxError

\* ------------------------------------------------------------------------
\* State
\* ------------------------------------------------------------------------
VARIABLES
    input,           \* the text handed to showPromptInspector
    src,             \* argument of the running transform / mapping call
    fn,              \* "display" (raw -> friendly) or "save" (friendly -> raw)
    pass,            \* 1: transform of input; 2: save of the displayed text
    pc,              \* "call", "loop", "done", "mapped"
    i,               \* loop index: number of characters consumed
    out,             \* output built so far (the return value when done)
    inStr,
    backslashCount,
    pre,             \* scan state and character before the last iteration
    topOffset,       \* offset handed to the mapping helper, -1 if none
    mappedIndex      \* result of the mapping helper, -1 if none

VARIABLES
    text,            \* findAnchor / buildAnchor: the text argument
    anchor,          \* the anchor built, or handed to findAnchor
    startIdx,        \* buildAnchor: startIdx argument
    count,           \* buildAnchor: count argument
    aroundIndex,     \* findAnchor: the guess offset
    radius,          \* findAnchor: the search radius
    scanStep,        \* tryScan: step, +1 forward or -1 backward
    cand,            \* tryScan: s, the candidate start position
    ti, ai, firstIndex,
    broke,           \* the inner matching loop was left by break
    idx,             \* findAnchor: the value returned
    via,             \* which return statement gave idx
    tried            \* candidates tried so far, in order

VARIABLES
    ceText,          \* text held by the contenteditable editor
    showNewlines,    \* the popup's representation flag
    stored,          \* localStorage promptInspectorShowNewlines
    openedWith,      \* showNewlines when the popup was opened
    clicks,          \* toggle clicks handled so far
    edits,           \* user edits made so far
    current,         \* the editor text read by the last toggle
    targetIndex,     \* offset scrolled to by the last toggle
    result           \* the text showPromptInspector resolves to

VARIABLES
    inspectEnabled,  \* the extension's inspectEnabled flag
    dryRun,          \* data.dryRun of the event
    main_api,        \* the API in use; isChatCompletion tests it
    chat,            \* data.chat
    chat0,           \* data.chat when the event was emitted
    promptJson,      \* JSON.stringify(data.chat, null, 4)
    toast            \* message shown by toastr.error, "none" before

scanVars == <<src, fn, pass, i, out, inStr, backslashCount, pre>>

findVars == <<text, startIdx, count, aroundIndex, radius, scanStep, cand,
              ti, ai, firstIndex, broke, idx, via, tried>>

sessVars == <<ceText, showNewlines, stored, openedWith, clicks, edits,
              current, targetIndex, result>>

chatVars == <<inspectEnabled, dryRun, main_api, chat, chat0, promptJson,
              toast>>

vars == <<input, pc, topOffset, mappedIndex, anchor,
          scanVars, findVars, chatVars, sessVars, chatVars>>

\* values of the variables of an operation that is not running
ScanIdle ==
    /\ src = <<>>
    /\ fn = "display"
    /\ pass = 1
    /\ i = 0
    /\ out = <<>>
    /\ inStr = FALSE
    /\ backslashCount = 0
    /\ pre = [out |-> <<>>, inStr |-> FALSE, backslashCount |-> 0, ch |-> ""]

FindIdle ==
    /\ startIdx = 0
    /\ count = 0
    /\ aroundIndex = 0
    /\ radius = 0
    /\ scanStep = 0
    /\ cand = 0
    /\ ti = 0
    /\ ai = 0
    /\ firstIndex = -1
    /\ broke = FALSE
    /\ idx = -1
    /\ via = "none"
    /\ tried = <<>>

SessIdle ==
    /\ ceText = <<>>
    /\ showNewlines = TRUE
    /\ stored = "null"
    /\ openedWith = TRUE
    /\ clicks = 0
    /\ edits = 0
    /\ current = <<>>
    /\ targetIndex = -1
    /\ result = <<>>

ChatIdle ==
    /\ inspectEnabled = FALSE
    /\ dryRun = FALSE
    /\ main_api = "openai"
    /\ chat = JsonArray(<<>>)
    /\ chat0 = JsonArray(<<>>)
    /\ promptJson = <<>>
    /\ toast = "none"

NoStep == [out |-> <<>>, inStr |-> FALSE, backslashCount |-> 0, ch |-> ""]

Init ==
    /\ input \in Texts
    /\ src = input
    /\ fn \in {"display", "save"}
    /\ pass = 1
    /\ pc = "call"
    /\ i = 0
    /\ out = <<>>
    /\ inStr = FALSE
    /\ backslashCount = 0
    /\ pre = NoStep
    /\ topOffset = -1
    /\ mappedIndex = -1
    /\ text = <<>>
    /\ anchor = <<>>
    /\ FindIdle
    /\ SessIdle
    /\ ChatIdle

\* if (!isLikelyJson(src)) return src;
NotJsonReturn ==
    /\ pc = "call"
    /\ ~isLikelyJson(src)
    /\ out' = src
    /\ pc' = "done"
    /\ UNCHANGED <<input, src, fn, pass, i, inStr, backslashCount, pre,
                   topOffset, mappedIndex>>
    /\ UNCHANGED <<anchor, findVars, sessVars, chatVars>>

\* let out = ''; let inStr = false; let backslashCount = 0; i = 0
EnterLoop ==
    /\ pc = "call"
    /\ isLikelyJson(src)
    /\ out' = <<>>
    /\ inStr' = FALSE
    /\ backslashCount' = 0
    /\ i' = 0
    /\ pc' = "loop"
    /\ UNCHANGED <<input, src, fn, pass, pre, topOffset, mappedIndex>>
    /\ UNCHANGED <<anchor, findVars, sessVars, chatVars>>

\* the scan state held in the loop's local variables
ScanState == [out |-> out, inStr |-> inStr, backslashCount |-> backslashCount]

\* the assignments of one loop iteration ending in scan state t, and i++
Advance(t) ==
    /\ out' = t.out
    /\ inStr' = t.inStr
    /\ backslashCount' = t.backslashCount
    /\ pre' = [out |-> out, inStr |-> inStr,
               backslashCount |-> backslashCount, ch |-> src[i + 1]]
    /\ i' = i + 1
    /\ UNCHANGED <<input, src, fn, pass, pc, topOffset, mappedIndex>>
    /\ UNCHANGED <<anchor, findVars, sessVars, chatVars>>

\* for (let i = 0; i < src.length; i++) { ... } of jsonStringsDisplayNewlines
DisplayIterate ==
    /\ fn = "display"
    /\ pc = "loop"
    /\ i < Len(src)
    /\ Advance(DisplayStep(ScanState, src[i + 1]))

\* for (let i = 0; i < src.length; i++) { ... } of jsonStringsSaveNewlines
SaveIterate ==
    /\ fn = "save"
    /\ pc = "loop"
    /\ i < Len(src)
    /\ Advance(SaveStep(ScanState, src[i + 1]))

\* loop exit, final flush and return
FlushReturn ==
    /\ pc = "loop"
    /\ i = Len(src)
    /\ out' = EndFlush(ScanState)
    /\ pc' = "done"
    /\ pre' = NoStep
    /\ UNCHANGED <<input, src, fn, pass, i, inStr, backslashCount,
                   topOffset, mappedIndex>>
    /\ UNCHANGED <<anchor, findVars, sessVars, chatVars>>

\* 'Save changes' on the unedited friendly text:
\* return jsonStringsSaveNewlines(finalText)
SaveChanges ==
    /\ pc = "done"
    /\ fn = "display"
    /\ pass = 1
    /\ src' = out
    /\ fn' = "save"
    /\ pass' = 2
    /\ pc' = "call"
    /\ i' = 0
    /\ out' = <<>>
    /\ inStr' = FALSE
    /\ backslashCount' = 0
    /\ pre' = NoStep
    /\ UNCHANGED <<input, topOffset, mappedIndex>>
    /\ UNCHANGED <<anchor, findVars, sessVars, chatVars>>

\* mappedIndex = mapRawTopToFriendlyIndex(current, topOffset)
MapRawTop ==
    /\ pc = "call"
    /\ fn = "display"
    /\ pass = 1
    /\ \E k \in 0..Len(src) :
          /\ topOffset' = k
          /\ mappedIndex' = mapRawTopToFriendlyIndex(src, k)
    /\ pc' = "mapped"
    /\ UNCHANGED <<input, src, fn, pass, i, out, inStr, backslashCount, pre>>
    /\ UNCHANGED <<anchor, findVars, sessVars, chatVars>>

\* mappedIndex = mapFriendlyTopToRawIndex(current, topOffset)
MapFriendlyTop ==
    /\ pc = "call"
    /\ fn = "save"
    /\ pass = 1
    /\ \E k \in 0..Len(src) :
          /\ topOffset' = k
          /\ mappedIndex' = mapFriendlyTopToRawIndex(src, k)
    /\ pc' = "mapped"
    /\ UNCHANGED <<input, src, fn, pass, i, out, inStr, backslashCount, pre>>
    /\ UNCHANGED <<anchor, findVars, sessVars, chatVars>>

Next ==
    \/ NotJsonReturn
    \/ EnterLoop
    \/ DisplayIterate
    \/ SaveIterate
    \/ FlushReturn
    \/ SaveChanges
    \/ MapRawTop
    \/ MapFriendlyTop

Spec == Init /\ [][Next]_vars

TypeOK ==
    /\ fn \in {"display", "save"}
    /\ pass \in {1, 2}
    /\ pc \in {"call", "loop", "done", "mapped"}
    /\ i \in 0..Len(src)
    /\ backslashCount \in 0..Len(src)
    /\ inStr \in BOOLEAN

\* ------------------------------------------------------------------------
\* buildAnchorIgnoringNewlines and findAnchorIgnoringNewlines, the search
\* run one candidate and one matching iteration per step
\* ------------------------------------------------------------------------
MaxTextLen == 3
MaxAnchorLen == 2
MaxCount == 3
MaxRadius == 2

AnchorChars == {"{", BACKSLASH, "n", LF, CR}

RECURSIVE AnchorSeqs(_)
AnchorSeqs(k) ==
    IF k = 0 THEN {<<>>}
    ELSE {Append(q, c) : q \in AnchorSeqs(k - 1), c \in AnchorChars}

AnchorTexts == UNION {AnchorSeqs(k) : k \in 0..MaxTextLen}

\* anchors handed to findAnchor: a carriage return in an anchor behaves as
\* a line feed does (neither can ever match), so only the line feed is drawn
AnchorArgs ==
    {q \in UNION {AnchorSeqs(k) : k \in 0..MaxAnchorLen} :
        \A j \in 1..Len(q) : q[j] # CR}

InitAnchor ==
    /\ input = <<>>
    /\ pc = "idle"
    /\ topOffset = -1
    /\ mappedIndex = -1
    /\ text \in AnchorTexts
    /\ anchor = <<>>
    /\ ScanIdle
    /\ FindIdle
    /\ SessIdle
    /\ ChatIdle

\* anchor = buildAnchorIgnoringNewlines(text, startIdx, count)
BuildAnchor ==
    /\ pc = "idle"
    /\ \E k \in -1..(Len(text) + 1), c \in 0..MaxCount :
          /\ startIdx' = k
          /\ count' = c
          /\ anchor' = buildAnchorIgnoringNewlines(text, k, c)
    /\ pc' = "built"
    /\ UNCHANGED <<input, topOffset, mappedIndex, scanVars, sessVars,
                   chatVars, text,
                   aroundIndex, radius, scanStep, cand, ti, ai, firstIndex,
                   broke, idx, via, tried>>

\* if (!anchor || anchor.length === 0) return aroundIndex;
FindEmptyAnchor ==
    /\ pc = "idle"
    /\ \E g \in -1..(Len(text) + 1), r \in 1..MaxRadius :
          /\ aroundIndex' = g
          /\ radius' = r
          /\ idx' = g
    /\ anchor' = <<>>
    /\ via' = "empty"
    /\ pc' = "found"
    /\ UNCHANGED <<input, topOffset, mappedIndex, scanVars, sessVars,
                   chatVars, text,
                   startIdx, count, scanStep, cand, ti, ai, firstIndex,
                   broke, tried>>

FindCall_BackwardFirst ==
    /\ pc = "idle"
    /\ \E a \in AnchorArgs \ {<<>>}, g \in -1..(Len(text) + 1),
          r \in 1..MaxRadius :
          /\ anchor' = a
          /\ aroundIndex' = g
          /\ radius' = r
          /\ cand' = g
    /\ scanStep' = -1
    /\ pc' = "scan"
    /\ UNCHANGED <<input, topOffset, mappedIndex, scanVars, sessVars,
                   chatVars, text,
                   startIdx, count, ti, ai, firstIndex, broke, idx, via,
                   tried>>

\* start, end; let idx = tryScan(aroundIndex, end, +1);
FindCall ==
    /\ pc = "idle"
    /\ \E a \in AnchorArgs \ {<<>>}, g \in -1..(Len(text) + 1),
          r \in 1..MaxRadius :
          /\ anchor' = a
          /\ aroundIndex' = g
          /\ radius' = r
          /\ cand' = g
    /\ scanStep' = 1
    /\ pc' = "scan"
    /\ UNCHANGED <<input, topOffset, mappedIndex, scanVars, sessVars,
                   chatVars, text,
                   startIdx, count, ti, ai, firstIndex, broke, idx, via,
                   tried>>

ScanTo ==
    IF scanStep > 0 THEN ScanHigh(text, aroundIndex, radius)
    ELSE ScanLow(aroundIndex, radius)

\* the for loop's test holds: let ti = s, ai = 0, firstIndex = -1;
NextCandidate ==
    /\ pc = "scan"
    /\ InScanRange(cand, ScanTo, scanStep)
    /\ ti' = cand
    /\ ai' = 0
    /\ firstIndex' = -1
    /\ broke' = FALSE
    /\ tried' = Append(tried, [step |-> scanStep, s |-> cand])
    /\ pc' = "match"
    /\ UNCHANGED <<input, topOffset, mappedIndex, scanVars, sessVars,
                   chatVars, text,
                   anchor, startIdx, count, aroundIndex, radius, scanStep,
                   cand, idx, via>>

MatchState == [ti |-> ti, ai |-> ai, firstIndex |-> firstIndex, broke |-> broke]

\* one iteration of the while loop of tryScan
MatchIterate ==
    /\ pc = "match"
    /\ MatchRunning(text, anchor, MatchState)
    /\ LET m == MatchStep(text, anchor, MatchState, scanStep)
       IN  /\ ti' = m.ti
           /\ ai' = m.ai
           /\ firstIndex' = m.firstIndex
           /\ broke' = m.broke
    /\ UNCHANGED <<input, pc, topOffset, mappedIndex, scanVars, sessVars,
                   chatVars,
                   text, anchor, startIdx, count, aroundIndex, radius,
                   scanStep, cand, idx, via, tried>>

\* if (ai === anchor.length) return firstIndex;  if (idx !== -1) return idx;
MatchFull ==
    /\ pc = "match"
    /\ ~MatchRunning(text, anchor, MatchState)
    /\ ai = Len(anchor)
    /\ idx' = firstIndex
    /\ via' = "match"
    /\ pc' = "found"
    /\ UNCHANGED <<input, topOffset, mappedIndex, scanVars, sessVars,
                   chatVars, text,
                   anchor, startIdx, count, aroundIndex, radius, scanStep,
                   cand, ti, ai, firstIndex, broke, tried>>

\* no full match at s: s += step
MatchFailed ==
    /\ pc = "match"
    /\ ~MatchRunning(text, anchor, MatchState)
    /\ ai # Len(anchor)
    /\ cand' = cand + scanStep
    /\ pc' = "scan"
    /\ UNCHANGED <<input, topOffset, mappedIndex, scanVars, sessVars,
                   chatVars, text,
                   anchor, startIdx, count, aroundIndex, radius, scanStep,
                   ti, ai, firstIndex, broke, idx, via, tried>>

\* the forward tryScan returned -1: idx = tryScan(aroundIndex, start, -1);
ForwardExhausted ==
    /\ pc = "scan"
    /\ scanStep = 1
    /\ ~InScanRange(cand, ScanTo, scanStep)
    /\ scanStep' = -1
    /\ cand' = aroundIndex
    /\ UNCHANGED <<input, pc, topOffset, mappedIndex, scanVars, sessVars,
                   chatVars,
                   text, anchor, startIdx, count, aroundIndex, radius,
                   ti, ai, firstIndex, broke, idx, via, tried>>

BackwardExhausted_ReturnsIdx ==
    /\ pc = "scan"
    /\ scanStep = -1
    /\ ~InScanRange(cand, ScanTo, scanStep)
    /\ idx' = -1
    /\ via' = "guess"
    /\ pc' = "found"
    /\ UNCHANGED <<input, topOffset, mappedIndex, scanVars, sessVars,
                   chatVars, text,
                   anchor, startIdx, count, aroundIndex, radius, scanStep,
                   cand, ti, ai, firstIndex, broke, tried>>

\* the backward tryScan returned -1 too: return aroundIndex;
BackwardExhausted ==
    /\ pc = "scan"
    /\ scanStep = -1
    /\ ~InScanRange(cand, ScanTo, scanStep)
    /\ idx' = aroundIndex
    /\ via' = "guess"
    /\ pc' = "found"
    /\ UNCHANGED <<input, topOffset, mappedIndex, scanVars, sessVars,
                   chatVars, text,
                   anchor, startIdx, count, aroundIndex, radius, scanStep,
                   cand, ti, ai, firstIndex, broke, tried>>

NextAnchor ==
    \/ BuildAnchor
    \/ FindEmptyAnchor
    \/ FindCall
    \/ NextCandidate
    \/ MatchIterate
    \/ MatchFull
    \/ MatchFailed
    \/ ForwardExhausted
    \/ BackwardExhausted

SpecAnchor == InitAnchor /\ [][NextAnchor]_vars

\* the search is one synchronous call: once started it keeps running
SpecAnchorFair == SpecAnchor /\ WF_vars(NextAnchor)

\* the stepped search returns what the function returns
FindAgrees ==
    pc = "found"
        => idx = findAnchorIgnoringNewlines(text, anchor, aroundIndex, radius)


\* ------------------------------------------------------------------------
\* The inspector popup: opening, editing, and the line-break toggle
\* ------------------------------------------------------------------------
MaxSessLen == 4
MaxClicks == 2
MaxEdits == 1

ANCHOR_LEN == 30
SEARCH_RADIUS == 4096

SessionTexts == UNION {SeqsOfLen(k) : k \in 0..MaxSessLen}

\* String(v) of a boolean
String(v) == IF v THEN "true" ELSE "false"

\* v === null ? 'true' : v
getShowNewlinesDefault == IF stored = "null" THEN "true" ELSE stored

\* const isJson = isLikelyJson(input);
isJson == isLikelyJson(input)

InitSession ==
    /\ input \in SessionTexts
    /\ pc = "closed"
    /\ topOffset = -1
    /\ mappedIndex = -1
    /\ text = <<>>
    /\ anchor = <<>>
    /\ ScanIdle
    /\ FindIdle
    /\ ceText = <<>>
    /\ showNewlines = TRUE
    /\ stored \in {"null", "true", "false"}
    /\ openedWith = TRUE
    /\ clicks = 0
    /\ edits = 0
    /\ current = <<>>
    /\ targetIndex = -1
    /\ result = <<>>
    /\ ChatIdle

\* showPromptInspector up to the popup being shown
OpenInspector ==
    /\ pc = "closed"
    /\ LET show == getShowNewlinesDefault # "false"
       IN  /\ showNewlines' = show
           /\ openedWith' = show
           /\ ceText' = IF show /\ isJson
                        THEN jsonStringsDisplayNewlines(input)
                        ELSE input
    /\ pc' = "open"
    /\ UNCHANGED <<input, topOffset, mappedIndex, anchor, scanVars, findVars, chatVars,
                   stored, clicks, edits, current, targetIndex,
                   result>>

\* the user types one character into the editor
TypeChar ==
    /\ pc \in {"open", "toggled"}
    /\ edits < MaxEdits
    /\ Len(ceText) < MaxSessLen
    /\ \E p \in 0..Len(ceText), c \in Chars :
          ceText' = SubSeq(ceText, 1, p) \o <<c>>
                        \o SubSeq(ceText, p + 1, Len(ceText))
    /\ edits' = edits + 1
    /\ pc' = "open"
    /\ UNCHANGED <<input, topOffset, mappedIndex, anchor, scanVars, findVars, chatVars,
                   showNewlines, stored, openedWith, clicks, current,
                   targetIndex, result>>

\* the user deletes one character in the editor
DeleteChar ==
    /\ pc \in {"open", "toggled"}
    /\ edits < MaxEdits
    /\ \E p \in 1..Len(ceText) :
          ceText' = SubSeq(ceText, 1, p - 1) \o SubSeq(ceText, p + 1, Len(ceText))
    /\ edits' = edits + 1
    /\ pc' = "open"
    /\ UNCHANGED <<input, topOffset, mappedIndex, anchor, scanVars, findVars, chatVars,
                   showNewlines, stored, openedWith, clicks, current,
                   targetIndex, result>>

ToggleClick_PersistsOld ==
    /\ pc \in {"open", "toggled"}
    /\ isJson
    /\ clicks < MaxClicks
    /\ \E top \in 0..Len(ceText) :
          LET cur == ceText
              anc == buildAnchorIgnoringNewlines(cur, top, ANCHOR_LEN)
              mapped ==
                  IF showNewlines
                  THEN (IF isJson THEN mapFriendlyTopToRawIndex(cur, top)
                        ELSE top)
                  ELSE (IF isJson THEN mapRawTopToFriendlyIndex(cur, top)
                        ELSE top)
              newText ==
                  IF showNewlines
                  THEN (IF isJson THEN jsonStringsSaveNewlines(cur) ELSE cur)
                  ELSE (IF isJson THEN jsonStringsDisplayNewlines(cur)
                        ELSE cur)
          IN  /\ current' = cur
              /\ topOffset' = top
              /\ anchor' = anc
              /\ mappedIndex' = mapped
              /\ targetIndex' = findAnchorIgnoringNewlines(
                                    newText, anc, mapped, SEARCH_RADIUS)
              /\ ceText' = newText
    /\ showNewlines' = ~showNewlines
    /\ stored' = String(showNewlines)
    /\ clicks' = clicks + 1
    /\ pc' = "toggled"
    /\ UNCHANGED <<input, scanVars, findVars, chatVars, openedWith, edits, result>>

\* click on #linebreakToggleBtn; the button is hidden when !isJson
ToggleClick ==
    /\ pc \in {"open", "toggled"}
    /\ isJson
    /\ clicks < MaxClicks
    /\ \E top \in 0..Len(ceText) :
          LET cur == ceText
              anc == buildAnchorIgnoringNewlines(cur, top, ANCHOR_LEN)
              mapped ==
                  IF showNewlines
                  THEN (IF isJson THEN mapFriendlyTopToRawIndex(cur, top)
                        ELSE top)
                  ELSE (IF isJson THEN mapRawTopToFriendlyIndex(cur, top)
                        ELSE top)
              newText ==
                  IF showNewlines
                  THEN (IF isJson THEN jsonStringsSaveNewlines(cur) ELSE cur)
                  ELSE (IF isJson THEN jsonStringsDisplayNewlines(cur)
                        ELSE cur)
          IN  /\ current' = cur
              /\ topOffset' = top
              /\ anchor' = anc
              /\ mappedIndex' = mapped
              /\ targetIndex' = findAnchorIgnoringNewlines(
                                    newText, anc, mapped, SEARCH_RADIUS)
              /\ ceText' = newText
    /\ showNewlines' = ~showNewlines
    /\ stored' = String(~showNewlines)
    /\ clicks' = clicks + 1
    /\ pc' = "toggled"
    /\ UNCHANGED <<input, scanVars, findVars, chatVars, openedWith, edits, result>>

PopupSave_ReturnsFinalText ==
    /\ pc \in {"open", "toggled"}
    /\ result' = ceText
    /\ pc' = "saved"
    /\ UNCHANGED <<input, topOffset, mappedIndex, anchor, scanVars, findVars, chatVars,
                   ceText, showNewlines, stored, openedWith, clicks, edits,
                   current, targetIndex>>

\* 'Save changes': const finalText = ceGetText(ce);
\* if (isJson && showNewlines) return jsonStringsSaveNewlines(finalText);
\* return finalText;
PopupSave ==
    /\ pc \in {"open", "toggled"}
    /\ result' = IF isJson /\ showNewlines
                 THEN jsonStringsSaveNewlines(ceText)
                 ELSE ceText
    /\ pc' = "saved"
    /\ UNCHANGED <<input, topOffset, mappedIndex, anchor, scanVars, findVars, chatVars,
                   ceText, showNewlines, stored, openedWith, clicks, edits,
                   current, targetIndex>>

\* 'Discard changes' or 'Cancel generation': if (!result) return input;
PopupDiscard ==
    /\ pc \in {"open", "toggled"}
    /\ result' = input
    /\ pc' = "discarded"
    /\ UNCHANGED <<input, topOffset, mappedIndex, anchor, scanVars, findVars, chatVars,
                   ceText, showNewlines, stored, openedWith, clicks, edits,
                   current, targetIndex>>

NextSession ==
    \/ OpenInspector
    \/ TypeChar
    \/ DeleteChar
    \/ ToggleClick
    \/ PopupSave
    \/ PopupDiscard

SpecSession == InitSession /\ [][NextSession]_vars

\* ------------------------------------------------------------------------
\* The CHAT_COMPLETION_PROMPT_READY handler
\* ------------------------------------------------------------------------
MaxChatItems == 2
MaxChatLen == 4

ChatChars == {"[", "]", "{", "}", ",", QUOTE, LF}

RECURSIVE ChatSeqs(_)
ChatSeqs(k) ==
    IF k = 0 THEN {<<>>}
    ELSE {Append(t, c) : t \in ChatSeqs(k - 1), c \in ChatChars}

\* texts the user can leave in the editor
ChatTexts == UNION {ChatSeqs(k) : k \in 0..MaxChatLen}

ChatItems == {JsonObject, JsonString(<<>>)}

RECURSIVE ItemSeqs(_)
ItemSeqs(k) ==
    IF k = 0 THEN {<<>>}
    ELSE {Append(its, v) : its \in ItemSeqs(k - 1), v \in ChatItems}

\* data.chat: an array of messages, or a value that is not an array
ChatValues ==
    {JsonArray(its) : its \in UNION {ItemSeqs(k) : k \in 0..MaxChatItems}}
        \cup {JsonObject}

\* function isChatCompletion() { return main_api === 'openai'; }
isChatCompletion == main_api = "openai"

InitChat ==
    /\ input = <<>>
    /\ pc = "event"
    /\ topOffset = -1
    /\ mappedIndex = -1
    /\ text = <<>>
    /\ anchor = <<>>
    /\ ScanIdle
    /\ FindIdle
    /\ SessIdle
    /\ inspectEnabled \in BOOLEAN
    /\ dryRun \in BOOLEAN
    /\ main_api \in {"openai", "textgenerationwebui"}
    /\ chat \in ChatValues
    /\ chat0 = chat
    /\ promptJson = <<>>
    /\ toast = "none"

\* if (!inspectEnabled) return;
ReturnDisabled ==
    /\ pc = "event"
    /\ ~inspectEnabled
    /\ pc' = "returned"
    /\ UNCHANGED <<input, topOffset, mappedIndex, anchor, scanVars, findVars,
                   sessVars, chatVars>>

\* if (data.dryRun) return;
ReturnDryRun ==
    /\ pc = "event"
    /\ inspectEnabled
    /\ dryRun
    /\ pc' = "returned"
    /\ UNCHANGED <<input, topOffset, mappedIndex, anchor, scanVars, findVars,
                   sessVars, chatVars>>

\* if (!isChatCompletion()) return;
ReturnOtherApi ==
    /\ pc = "event"
    /\ inspectEnabled
    /\ ~dryRun
    /\ ~isChatCompletion
    /\ pc' = "returned"
    /\ UNCHANGED <<input, topOffset, mappedIndex, anchor, scanVars, findVars,
                   sessVars, chatVars>>

\* const promptJson = JSON.stringify(data.chat, null, 4);
\* const result = await showPromptInspector(promptJson);
CallInspector ==
    /\ pc = "event"
    /\ inspectEnabled
    /\ ~dryRun
    /\ isChatCompletion
    /\ promptJson' = JSONstringify(chat)
    /\ input' = JSONstringify(chat)
    /\ pc' = "popup"
    /\ UNCHANGED <<topOffset, mappedIndex, anchor, scanVars, findVars,
                   sessVars, inspectEnabled, dryRun, main_api, chat, chat0,
                   toast>>

\* the popup is discarded or generation cancelled: if (!result) return input;
InspectorDiscarded ==
    /\ pc = "popup"
    /\ result' = input
    /\ pc' = "resolved"
    /\ UNCHANGED <<input, topOffset, mappedIndex, anchor, scanVars, findVars,
                   ceText, showNewlines, stored, openedWith, clicks, edits,
                   current, targetIndex, chatVars>>

\* 'Save changes' with the editor holding finalText, edited or not, in
\* either representation
InspectorSaved ==
    /\ pc = "popup"
    /\ \E finalText \in ChatTexts \cup
                        {input, jsonStringsDisplayNewlines(input)} :
       \E show \in BOOLEAN :
          /\ ceText' = finalText
          /\ showNewlines' = show
          /\ result' = IF isJson /\ show
                       THEN jsonStringsSaveNewlines(finalText)
                       ELSE finalText
    /\ pc' = "resolved"
    /\ UNCHANGED <<input, topOffset, mappedIndex, anchor, scanVars, findVars,
                   stored, openedWith, clicks, edits, current, targetIndex,
                   chatVars>>

\* if (result === promptJson) return;
ReturnSame ==
    /\ pc = "resolved"
    /\ result = promptJson
    /\ pc' = "returned"
    /\ UNCHANGED <<input, topOffset, mappedIndex, anchor, scanVars, findVars,
                   sessVars, chatVars>>

ParseThrows_NoCatch ==
    /\ pc = "resolved"
    /\ result # promptJson
    /\ JSONparse(result) = SyntaxError
    /\ pc' = "threw"
    /\ UNCHANGED <<input, topOffset, mappedIndex, anchor, scanVars, findVars,
                   sessVars, chatVars>>

\* JSON.parse throws inside the try:
\* catch (e) { console.error(...); toastr.error('Invalid JSON'); }
ParseThrows ==
    /\ pc = "resolved"
    /\ result # promptJson
    /\ JSONparse(result) = SyntaxError
    /\ toast' = "Invalid JSON"
    /\ pc' = "returned"
    /\ UNCHANGED <<input, topOffset, mappedIndex, anchor, scanVars, findVars,
                   sessVars, inspectEnabled, dryRun, main_api, chat, chat0,
                   promptJson>>

\* Array.isArray(chat) && Array.isArray(data.chat) is false
NotArrays ==
    /\ pc = "resolved"
    /\ result # promptJson
    /\ JSONparse(result) # SyntaxError
    /\ ~(IsArray(JSONparse(result)) /\ IsArray(chat))
    /\ pc' = "returned"
    /\ UNCHANGED <<input, topOffset, mappedIndex, anchor, scanVars, findVars,
                   sessVars, chatVars>>

\* data.chat.splice(0, data.chat.length, ...chat);
SpliceChat ==
    /\ pc = "resolved"
    /\ result # promptJson
    /\ JSONparse(result) # SyntaxError
    /\ IsArray(JSONparse(result))
    /\ IsArray(chat)
    /\ chat' = JsonArray(JSONparse(result).items)
    /\ pc' = "returned"
    /\ UNCHANGED <<input, topOffset, mappedIndex, anchor, scanVars, findVars,
                   sessVars, inspectEnabled, dryRun, main_api, chat0,
                   promptJson, toast>>

NextChat ==
    \/ ReturnDisabled
    \/ ReturnDryRun
    \/ ReturnOtherApi
    \/ CallInspector
    \/ InspectorDiscarded
    \/ InspectorSaved
    \/ ReturnSame
    \/ ParseThrows
    \/ NotArrays
    \/ SpliceChat

SpecChat == InitChat /\ [][NextChat]_vars

\* ------------------------------------------------------------------------
\* Properties
\* ------------------------------------------------------------------------
\* Character k of x is met by the display scanner while inStr is true.
MetInString(x, k) == DisplayRun(x, k - 1).inStr

HasInString(x, ch) == \E k \in 1..Len(x) : x[k] = ch /\ MetInString(x, k)

CountOf(s, ch) == Cardinality({k \in 1..Len(s) : s[k] = ch})

RoundTripDone == pc = "done" /\ pass = 2

\* C1 (as stated): for every JSON-like input with no carriage return inside
\* a string literal, saving the displayed text gives the input back:
\* toRaw(toFriendly(x)) = x.
C1_RoundTripOnlyCRExcluded ==
    (RoundTripDone /\ isLikelyJson(input) /\ ~HasInString(input, CR))
        => out = input

\* C1 (amended): for every JSON-like input with neither a carriage return
\* nor a real line feed inside a string literal, toRaw(toFriendly(x)) = x.
C1_RoundTrip ==
    (RoundTripDone /\ isLikelyJson(input)
        /\ ~HasInString(input, CR) /\ ~HasInString(input, LF))
        => out = input

\* a round trip over a literal holding a triple backslash run before n
C1_Witness ==
    /\ RoundTripDone
    /\ input = <<"{", QUOTE, BACKSLASH, BACKSLASH, "n">>
    /\ src = <<"{", QUOTE, BACKSLASH, LF>>
    /\ out = input

\* C2: when isLikelyJson(text) is false, toFriendly(text) = text and
\* toRaw(text) = text, whatever quoted segments the text holds.
NonSpace(s) == {k \in 1..Len(s) : s[k] \notin {LF, CR}}

FirstNonSpace(s) == CHOOSE k \in NonSpace(s) : \A m \in NonSpace(s) : k <= m

NotJsonLike(s) ==
    \/ NonSpace(s) = {}
    \/ s[FirstNonSpace(s)] \notin {"{", "["}

C2_NotJsonIdentity ==
    /\ isLikelyJson(src) <=> ~NotJsonLike(src)
    /\ (pc = "done" /\ NotJsonLike(src)) => out = src

C2_Witness ==
    /\ pc = "done"
    /\ fn = "save"
    /\ pass = 1
    /\ src = <<QUOTE, BACKSLASH, "n", LF, CR>>
    /\ ~isLikelyJson(src)
    /\ out = src

\* C3: in toFriendly, an n met inside a string literal with a pending run
\* r >= 1 is emitted as r-1 backslashes and one line feed, with r = 0 it is
\* emitted as the character n, and the pending run is 0 afterwards.
C3_DisplayN ==
    (fn = "display" /\ pre.ch = "n" /\ pre.inStr)
        => /\ backslashCount = 0
           /\ inStr
           /\ out = pre.out
                    \o (IF pre.backslashCount >= 1
                        THEN Repeat(pre.backslashCount - 1) \o <<LF>>
                        ELSE <<"n">>)

C3_Witness ==
    /\ fn = "display"
    /\ pre.ch = "n"
    /\ pre.inStr
    /\ pre.backslashCount = 2
    /\ out = <<"{", QUOTE, BACKSLASH, LF>>

\* C4: in toRaw, a line feed met inside a string literal with a pending run
\* of r backslashes is emitted as r backslashes, a backslash and n, the run
\* is 0 afterwards, and no line feed is added to the output.
C4_SaveLF ==
    (fn = "save" /\ pre.ch = LF /\ pre.inStr)
        => /\ out = pre.out \o Repeat(pre.backslashCount)
                            \o <<BACKSLASH, "n">>
           /\ backslashCount = 0
           /\ inStr
           /\ CountOf(out, LF) = CountOf(pre.out, LF)

C4_Witness ==
    /\ fn = "save"
    /\ pass = 1
    /\ pre.ch = LF
    /\ pre.inStr
    /\ pre.backslashCount = 2
    /\ out = <<"{", QUOTE, BACKSLASH, BACKSLASH, BACKSLASH, "n">>

IsNewlineStep ==
    \/ fn = "display" /\ pre.ch = "n" /\ i >= 2 /\ src[i - 1] = BACKSLASH
    \/ fn = "save" /\ pre.ch = LF

NewlineConverted ==
    \/ fn = "display"
         /\ out = pre.out \o Repeat(pre.backslashCount - 1) \o <<LF>>
    \/ fn = "save"
         /\ out = pre.out \o Repeat(pre.backslashCount) \o <<BACKSLASH, "n">>

\* C5: in both transforms a double quote met inside a string literal with a
\* pending run of r backslashes is emitted as r backslashes and the quote,
\* and the scanner stays inside the literal iff r is odd; a newline met
\* afterwards is converted iff the scanner is still inside the literal.
C5_QuoteParity ==
    /\ (pre.ch = QUOTE /\ pre.inStr)
          => /\ out = pre.out \o Repeat(pre.backslashCount) \o <<QUOTE>>
             /\ inStr = (pre.backslashCount % 2 = 1)
             /\ backslashCount = 0
    /\ (pre.ch # "" /\ IsNewlineStep) => (NewlineConverted <=> pre.inStr)

\* a line feed right after an escaped quote is converted
C5_Witness ==
    /\ fn = "save"
    /\ pass = 1
    /\ src = <<"{", QUOTE, BACKSLASH, QUOTE, LF>>
    /\ pre.ch = LF
    /\ pre.inStr
    /\ out = <<"{", QUOTE, BACKSLASH, QUOTE, BACKSLASH, "n">>

\* C6: in both transforms a character scanned outside a string literal is
\* emitted unchanged, and the only change of scan state is that a double
\* quote sets inStr.
C6_OutsideCopied ==
    (pre.ch # "" /\ ~pre.inStr)
        => /\ out = pre.out \o <<pre.ch>>
           /\ inStr = (pre.ch = QUOTE)
           /\ backslashCount = pre.backslashCount
           /\ backslashCount = 0

\* a backslash-n pair between string literals is copied
C6_Witness ==
    /\ fn = "display"
    /\ pre.ch = "n"
    /\ ~pre.inStr
    /\ src = <<"{", QUOTE, QUOTE, BACKSLASH, "n">>
    /\ out = src

\* C7: in toFriendly, an n met inside a string literal after a run of
\* exactly two backslashes is an ordinary character: backslash, backslash,
\* n are emitted and no line feed.
C7_DoubleBackslashN ==
    (fn = "display" /\ pre.ch = "n" /\ pre.inStr /\ pre.backslashCount = 2)
        => out = pre.out \o <<BACKSLASH, BACKSLASH, "n">>

\* C8: in toRaw, a carriage return met inside a string literal emits
\* nothing and leaves the pending backslash run at 0.
C8_SaveCRResetsRun ==
    (fn = "save" /\ pre.ch = CR /\ pre.inStr)
        => /\ out = pre.out
           /\ backslashCount = 0

\* C9: mapRawToFriendly(text, k) is the number of characters the toFriendly
\* scan emits for text[0..k), final flush included; for JSON-like text and
\* k = len(text) it is len(toFriendly(text)).
C9_MapRawAgrees ==
    (pc = "mapped" /\ fn = "display")
        => /\ mappedIndex = Len(DisplayScan(SubSeq(src, 1, topOffset)))
           /\ (isLikelyJson(src) /\ topOffset = Len(src))
                 => mappedIndex = Len(jsonStringsDisplayNewlines(src))

C9_Witness ==
    /\ pc = "mapped"
    /\ fn = "display"
    /\ src = <<"{", QUOTE, BACKSLASH, "n", BACKSLASH>>
    /\ topOffset = 5
    /\ mappedIndex = 4

\* C10: mapFriendlyToRaw(text, k) is the number of characters the toRaw
\* scan emits for text[0..k), final flush included; for JSON-like text and
\* k = len(text) it is len(toRaw(text)).
C10_MapFriendlyAgrees ==
    (pc = "mapped" /\ fn = "save")
        => /\ mappedIndex = Len(SaveScan(SubSeq(src, 1, topOffset)))
           /\ (isLikelyJson(src) /\ topOffset = Len(src))
                 => mappedIndex = Len(jsonStringsSaveNewlines(src))

\* C11: when isLikelyJson(text) is false, mapRawToFriendly(text, k) = k and
\* mapFriendlyToRaw(text, k) = k for every offset k in 0..len(text).
C11_NotJsonMapIdentity ==
    (pc = "mapped" /\ ~isLikelyJson(src)) => mappedIndex = topOffset

\* Positions of t after offset k that survive deleting every literal
\* backslash-n pair and every real line-break character (one-based).
KeptAfter(t, k) ==
    {p \in (k + 1)..Len(t) :
        /\ t[p] \notin {LF, CR}
        /\ ~(t[p] = BACKSLASH /\ p < Len(t) /\ t[p + 1] = "n")
        /\ ~(t[p] = "n" /\ p - 1 >= k + 1 /\ t[p - 1] = BACKSLASH)}

NthKept(t, k, j) ==
    CHOOSE p \in KeptAfter(t, k) :
        Cardinality({q \in KeptAfter(t, k) : q < p}) = j - 1

StrippedAfter(t, k) ==
    [j \in 1..Cardinality(KeptAfter(t, k)) |-> t[NthKept(t, k, j)]]

FirstOf(q, n) == SubSeq(q, 1, Min(n, Len(q)))

\* C12: buildAnchor(text, k, L) is the first L characters of text[k..] after
\* deleting every literal backslash-n pair and every real line-break
\* character; it has at most L characters and no line-break character.
C12_BuildAnchor ==
    (pc = "built" /\ startIdx >= 0)
        => /\ anchor = FirstOf(StrippedAfter(text, startIdx), count)
           /\ Len(anchor) <= count
           /\ \A j \in 1..Len(anchor) : anchor[j] \notin {LF, CR}

\* a backslash-n pair is skipped before the character collected
C12_Witness ==
    /\ pc = "built"
    /\ text = <<BACKSLASH, "n", "{">>
    /\ startIdx = 0
    /\ count = 1
    /\ anchor = <<"{">>

SameAnchors(x, y) ==
    \A c \in 0..(MaxLen + 1) :
        buildAnchorIgnoringNewlines(x, 0, c)
            = buildAnchorIgnoringNewlines(y, 0, c)

TransformDone == pc = "done" /\ pass = 1 /\ isLikelyJson(src)

\* C13 (as stated): for every JSON-like text x and every length L,
\* buildAnchor(x, 0, L) = buildAnchor(toFriendly(x), 0, L) and
\* buildAnchor(x, 0, L) = buildAnchor(toRaw(x), 0, L).
C13_SameAnchorAcross == TransformDone => SameAnchors(src, out)

\* C13 (amended): for every JSON-like text x and every length L,
\* buildAnchor(x, 0, L) = buildAnchor(toFriendly(x), 0, L), and
\* buildAnchor(x, 0, L) = buildAnchor(toRaw(x), 0, L) when x has no
\* carriage return inside a string literal.
C13_SameAnchor ==
    /\ (TransformDone /\ fn = "display") => SameAnchors(src, out)
    /\ (TransformDone /\ fn = "save" /\ ~HasInString(src, CR))
          => SameAnchors(src, out)

\* toRaw turned two line feeds of a literal into pairs; the anchors agree
C13_Witness ==
    /\ TransformDone
    /\ fn = "save"
    /\ src = <<"{", QUOTE, LF, "{", LF>>
    /\ out = <<"{", QUOTE, BACKSLASH, "n", "{", BACKSLASH, "n">>
    /\ buildAnchorIgnoringNewlines(out, 0, 30) = <<"{", QUOTE, "{">>

\* the inner matching loop started at candidate c consumes the whole anchor
FullMatchAt(c, step) ==
    MatchLoop(text, anchor, MatchStart(c), step).ai = Len(anchor)

ForwardCands == aroundIndex..ScanHigh(text, aroundIndex, radius)

BackwardCands == ScanLow(aroundIndex, radius)..aroundIndex

NoCandidateMatches ==
    /\ \A c \in ForwardCands : ~FullMatchAt(c, 1)
    /\ \A c \in BackwardCands : ~FullMatchAt(c, -1)

\* C15: findAnchor returns guessOffset unchanged when the anchor is empty
\* and when no candidate of the window fully matches in either direction,
\* whatever the guess (below 0 and above len(text) included); the not-found
\* value -1 of the scans is not what comes back.
C15_DegradesToGuess ==
    (pc = "found" /\ (anchor = <<>> \/ NoCandidateMatches))
        => /\ idx = aroundIndex
           /\ via \in {"empty", "guess"}
           /\ (aroundIndex # -1 => idx # -1)

\* nothing matches around a guess above the end of the text
C15_Witness ==
    /\ pc = "found"
    /\ via = "guess"
    /\ text = <<"{", "n">>
    /\ anchor = <<"n", "n">>
    /\ aroundIndex = 3
    /\ idx = 3

\* C16: whenever findAnchor returns a full match, forward or backward, the
\* offset r returned has text[r] = anchor[0] and
\* buildAnchor(text, r, len(anchor)) = anchor.
C16_MatchIsAnchor ==
    (pc = "found" /\ via = "match")
        => /\ CharAt(text, idx) = anchor[1]
           /\ buildAnchorIgnoringNewlines(text, idx, Len(anchor)) = anchor

\* the same for the matches of the forward scan only
ForwardMatchIsAnchor ==
    (pc = "found" /\ via = "match" /\ scanStep = 1)
        => /\ CharAt(text, idx) = anchor[1]
           /\ buildAnchorIgnoringNewlines(text, idx, Len(anchor)) = anchor

ForwardTried == SelectSeq(tried, LAMBDA e : e.step = 1)

BackwardTried == SelectSeq(tried, LAMBDA e : e.step = -1)

FirstForwardMatch ==
    CHOOSE c \in ForwardCands :
        /\ FullMatchAt(c, 1)
        /\ \A b \in ForwardCands : FullMatchAt(b, 1) => c <= b

\* C17: candidates are tried forward first, s = guess, guess+1, ..., up to
\* min(len, guess+radius), and the first one that fully matches decides the
\* result; backward candidates s = guess, guess-1, ..., down to
\* max(0, guess-radius) are tried only when no forward candidate matched;
\* no candidate outside [guess-radius, guess+radius] is tried.
C17_ScanOrder ==
    /\ tried = ForwardTried \o BackwardTried
    /\ \A j \in 1..Len(ForwardTried) :
          /\ ForwardTried[j].s = aroundIndex + (j - 1)
          /\ ForwardTried[j].s <= Min(Len(text), aroundIndex + radius)
    /\ \A j \in 1..Len(BackwardTried) :
          /\ BackwardTried[j].s = aroundIndex - (j - 1)
          /\ BackwardTried[j].s >= Max(0, aroundIndex - radius)
    /\ BackwardTried # <<>>
          => /\ \A c \in ForwardCands : ~FullMatchAt(c, 1)
             /\ Len(ForwardTried) = Cardinality(ForwardCands)
    /\ \A j \in 1..Len(tried) :
          /\ tried[j].s >= aroundIndex - radius
          /\ tried[j].s <= aroundIndex + radius
    /\ (pc = "found" /\ anchor # <<>>
           /\ \E c \in ForwardCands : FullMatchAt(c, 1))
          => /\ BackwardTried = <<>>
             /\ ForwardTried # <<>>
             /\ ForwardTried[Len(ForwardTried)].s = FirstForwardMatch
             /\ idx = MatchLoop(text, anchor, MatchStart(FirstForwardMatch),
                                1).firstIndex

\* the forward match at offset 2 decides although offset 0 matches too
C17_Witness ==
    /\ pc = "found"
    /\ text = <<"{", "n", "{">>
    /\ anchor = <<"{">>
    /\ aroundIndex = 1
    /\ radius = 1
    /\ idx = 2
    /\ tried = <<[step |-> 1, s |-> 1], [step |-> 1, s |-> 2]>>
    /\ FullMatchAt(0, -1)

\* C18: findAnchor terminates and returns a value for every text, anchor,
\* guess and radius; the backward scan cannot cycle.
C18_Terminates == (pc \in {"scan", "match"}) ~> (pc = "found")

\* a backward scan that stepped back over a line feed has returned
C18_Witness ==
    /\ pc = "found"
    /\ scanStep = -1
    /\ text = <<"n", LF>>
    /\ anchor = <<"n", "n">>
    /\ aroundIndex = 1
    /\ tried[Len(tried)] = [step |-> -1, s |-> 1]
    /\ idx = 0

AnchorAtTarget ==
    buildAnchorIgnoringNewlines(ceText, targetIndex, Len(anchor)) = anchor

ForwardScanFound ==
    tryScan(ceText, anchor, mappedIndex,
            ScanHigh(ceText, mappedIndex, SEARCH_RADIUS), 1) # -1

C19_FlipAndPersist ==
    /\ clicks > 0 => stored = String(showNewlines)
    /\ pc # "closed" => ((showNewlines = openedWith) <=> (clicks % 2 = 0))

C19_Witness ==
    /\ pc = "toggled"
    /\ clicks = 2
    /\ openedWith = FALSE
    /\ showNewlines = FALSE
    /\ stored = "false"

\* C20: in every toggle, if the editor's current text is not JSON-like, the
\* best-guess offset handed to the anchor search equals the first fully
\* visible offset and the text written back equals the current text.
C20_NotJsonToggleIdentity ==
    (pc = "toggled" /\ ~isLikelyJson(current))
        => /\ mappedIndex = topOffset
           /\ ceText = current

NoBreakInLiteral(t) == ~HasInString(t, LF) /\ ~HasInString(t, CR)

JsonNoBreakInput == isLikelyJson(input) /\ NoBreakInLiteral(input)

\* C21: toggling without editing never changes what is saved: opened on a
\* JSON-like input x with no line feed or carriage return inside a string
\* literal, after any number of toggle clicks and no edits the editor text
\* is toFriendly(x) while showNewlines is true and x while it is false, and
\* 'Save changes' returns exactly x in either state.
C21_ToggleKeepsSaved ==
    (JsonNoBreakInput /\ edits = 0)
        => /\ pc \in {"open", "toggled", "saved"}
                => ceText = IF showNewlines
                            THEN jsonStringsDisplayNewlines(input)
                            ELSE input
           /\ pc = "saved" => result = input

\* saved from the friendly view after two toggles of a text with an escape
C21_Witness ==
    /\ pc = "saved"
    /\ edits = 0
    /\ clicks = 2
    /\ showNewlines
    /\ input = <<"{", QUOTE, BACKSLASH, "n">>
    /\ ceText = <<"{", QUOTE, LF>>
    /\ result = input

ChatMayChange ==
    /\ inspectEnabled
    /\ ~dryRun
    /\ isChatCompletion
    /\ result # promptJson
    /\ IsArray(JSONparse(result))

\* C22: the chat-completion handler changes data.chat only when inspection
\* is enabled, the event is not a dry run, the API is chat completion, the
\* inspector's result differs from the serialized prompt and the result
\* parses as a JSON array; in every other case data.chat is left unchanged,
\* and no error propagates out of the handler.
C22_ChatChangedOnlyByArray ==
    /\ chat # chat0 => (pc = "returned" /\ ChatMayChange)
    /\ (pc = "returned" /\ ~ChatMayChange) => chat = chat0
    /\ pc # "threw"

\* the user saved text that is not valid JSON: the error is caught, shown,
\* and data.chat is as it was
C22_Witness ==
    /\ pc = "returned"
    /\ inspectEnabled /\ ~dryRun /\ isChatCompletion
    /\ chat0 = JsonArray(<<JsonObject>>)
    /\ result = <<"[", "{", "}", ",">>
    /\ toast = "Invalid JSON"
    /\ chat = chat0

====
